---- MODULE Spec2Model ----
(***************************************************************************)
(* Knowledge-graph construction: the chunker (chunk_text), the extractor   *)
(* (LLMExtractor.extract and its loops), the merger                        *)
(* (merge_knowledge_graphs), the Neo4j storage layer (Neo4jStorage) with   *)
(* its similarity search, and the pipeline (process_text), modelled from   *)
(* app/components, and the command line (main) from app/main.py. Each      *)
(* component has its own specification: SpecChunk, SpecExtract, SpecMerge, *)
(* SpecStore, SpecQuery, Spec for the pipeline and SpecMain for main.      *)
(*                                                                         *)
(* Python objects are modelled with their identity where the code relies   *)
(* on it: merge_knowledge_graphs keeps references to the Entity objects of *)
(* its input, so the input fragments are a heap ("graphs") that the merge  *)
(* reads and writes, and the merged entities are references into it.       *)
(***************************************************************************)
EXTENDS Integers, Sequences, FiniteSets, TLC

VARIABLES
    pc,          \* position of the modelled component
    graphs0,     \* the fragments as they were handed to merge_knowledge_graphs
    graphs,      \* the fragments (objects of the heap), as they are now
    merged_kg,   \* the KnowledgeGraph returned by merge_knowledge_graphs
    num_chunks,  \* number of chunks handed to the extraction loop
    responses,   \* what the generation call did for each chunk so far
    db,          \* the Neo4j store: nodes and edges
    last_call,   \* the storage operation executed last, with its arguments
    num_calls,   \* number of storage operations executed
    similar,     \* the call of find_similar_entities: arguments, rows read, result
    run,         \* the run of process_text: its arguments, events and outcome
    chunker,     \* the call of chunk_text: its arguments and its outcome
    cli          \* the execution of the command line's main: arguments, pipeline, exit

vars == <<pc, graphs0, graphs, merged_kg, num_chunks, responses, db, last_call, num_calls,
          similar, run, chunker, cli>>

----------------------------------------------------------------------------
(* Bounds of the model *)

\* fragments handed to one merge / chunks of one extraction loop
MaxGraphs == 2
\* entity and relationship occurrences over all fragments of one merge
MaxItems == 4
\* elements of the entities and relationships lists over all responses of one
\* extraction loop
MaxElements == 2
\* storage operations in one behaviour
MaxCalls == 2
\* entities and relationships of a graph handed to store_knowledge_graph
MaxStored == 3
\* largest limit handed to find_similar_entities
MaxLimit == 2
\* characters of a text handed to chunk_text
MaxText == 5
\* largest chunk_size and chunk_overlap handed to chunk_text
MaxChunkSize == 3

----------------------------------------------------------------------------
(* Data model: Entity, Relationship, KnowledgeGraph *)

\* a properties dict: a function from its keys to values
EmptyDict == <<>>

Dict1(k, v) == [x \in {k} |-> v]

Dict2(k1, v1, k2, v2) == [x \in {k1, k2} |-> IF x = k1 THEN v1 ELSE v2]

\* Entity(name=..., type=..., properties=...)
Entity(name, type, properties) ==
    [name |-> name, type |-> type, properties |-> properties]

\* Relationship(source=..., target=..., type=..., properties=...)
Relationship(source, target, type, properties) ==
    [source |-> source, target |-> target, type |-> type, properties |-> properties]

\* KnowledgeGraph(entities=..., relationships=...)
KnowledgeGraph(entities, relationships) ==
    [entities |-> entities, relationships |-> relationships]

\* relationship types are strings of characters (create_relationship rewrites them)
TypeWorksFor == <<"i", "s", " ", "a">>

TypeWorksForHyphen == <<"i", "s", "-", "a">>

TypeWorksForUpper == <<"I", "S", "_", "A">>

\* the entities a generation call may name: "AI" three times with different
\* types and properties, and "ai", a different name
EntityPool ==
    { Entity("AI", "Concept", EmptyDict),
      Entity("AI", "Topic", Dict1("lang", "en")),
      Entity("AI", "Concept", Dict2("lang", "ko", "w", "5")),
      Entity("ai", "Topic", Dict1("w", "7")) }

\* the relationships a generation call may name: the same triple twice with
\* different properties, and a triple that differs in its type only
RelationshipPool ==
    { Relationship("AI", "ai", TypeWorksFor, EmptyDict),
      Relationship("AI", "ai", TypeWorksFor, Dict1("w", "5")),
      Relationship("AI", "ai", TypeWorksForHyphen, Dict1("w", "7")) }

SeqsUpTo(S, n) == UNION {[1..k -> S] : k \in 0..n}

\* ways to split a sequence of n items over f fragments, in order
Splits(n, f) ==
    {c \in [1..n -> 1..f] : \A i \in 1..n, j \in 1..n : i <= j => c[i] <= c[j]}

\* the items that split c puts into fragment g
Part(s, c, g) ==
    LET lo == Cardinality({i \in 1..Len(s) : c[i] < g})
        hi == Cardinality({i \in 1..Len(s) : c[i] <= g})
    IN  SubSeq(s, lo + 1, hi)

----------------------------------------------------------------------------
(* merge_knowledge_graphs *)

\* a dict.update that keeps the existing value of a key both dicts hold
DictUpdateKeepExisting(p, q) ==
    [k \in (DOMAIN p) \cup (DOMAIN q) |-> IF k \in DOMAIN p THEN p[k] ELSE q[k]]

\* dict.update: key-wise overwrite, new keys added
DictUpdate(p, q) ==
    [k \in (DOMAIN p) \cup (DOMAIN q) |-> IF k \in DOMAIN q THEN q[k] ELSE p[k]]

\* the Entity object that reference <<g, i>> names
Deref(heap, ref) == heap[ref[1]].entities[ref[2]]

\* a loop body that appends every entity, seen before or not
MergeEntityNoDedup(m, ref) ==
    [heap |-> m.heap,
     all_entities |-> Append(m.all_entities, ref),
     entity_map |-> (Deref(m.heap, ref).name :> ref) @@ m.entity_map]

\* a loop body that moves a name seen again to the end of all_entities
MergeEntityMoveToEnd(m, ref) ==
    LET entity == Deref(m.heap, ref)
    IN  IF entity.name \notin DOMAIN m.entity_map
        THEN [heap |-> m.heap,
              all_entities |-> Append(m.all_entities, ref),
              entity_map |-> (entity.name :> ref) @@ m.entity_map]
        ELSE LET existing == m.entity_map[entity.name]
                 IsOther(r) == r # existing
             IN  [heap |-> [m.heap EXCEPT ![existing[1]].entities[existing[2]].properties =
                                [k \in (DOMAIN @) \cup (DOMAIN entity.properties) |->
                                    IF k \in DOMAIN entity.properties
                                    THEN entity.properties[k] ELSE @[k]]],
                  all_entities |-> Append(SelectSeq(m.all_entities, IsOther), existing),
                  entity_map |-> m.entity_map]

\* body of the loop over graph.entities, for the entity object at ref:
\* m is [heap, all_entities, entity_map]
MergeEntity(m, ref) ==
    LET entity == Deref(m.heap, ref)
    IN  IF entity.name \notin DOMAIN m.entity_map
        THEN [heap |-> m.heap,
              all_entities |-> Append(m.all_entities, ref),
              entity_map |-> (entity.name :> ref) @@ m.entity_map]
        ELSE LET existing == m.entity_map[entity.name]
             IN  [heap |-> [m.heap EXCEPT ![existing[1]].entities[existing[2]].properties =
                                DictUpdate(@, entity.properties)],
                  all_entities |-> m.all_entities,
                  entity_map |-> m.entity_map]

\* the two nested loops over graphs and graph.entities, from position <<g, i>>
RECURSIVE MergeEntities(_, _, _)
MergeEntities(m, g, i) ==
    IF g > Len(m.heap) THEN m
    ELSE IF i > Len(m.heap[g].entities) THEN MergeEntities(m, g + 1, 1)
    ELSE MergeEntities(MergeEntity(m, <<g, i>>), g, i + 1)

\* all_relationships.extend(graph.relationships), over the graphs from g on
RECURSIVE AllRelationships(_, _)
AllRelationships(heap, g) ==
    IF g > Len(heap) THEN <<>>
    ELSE heap[g].relationships \o AllRelationships(heap, g + 1)

\* a key that leaves the type out
RelKeyNoType(rel) == <<rel.source, rel.target>>

\* key = (rel.source, rel.target, rel.type)
RelKey(rel) == <<rel.source, rel.target, rel.type>>

\* a loop body that puts a new relationship in front of the ones kept so far
DedupRelationshipPrepend(d, rel) ==
    IF <<rel.source, rel.target, rel.type>> \notin d.seen
    THEN [unique_relationships |-> <<rel>> \o d.unique_relationships,
          seen |-> d.seen \cup {<<rel.source, rel.target, rel.type>>}]
    ELSE d

\* body of the deduplication loop: d is [unique_relationships, seen]
DedupRelationship(d, rel) ==
    IF RelKey(rel) \notin d.seen
    THEN [unique_relationships |-> Append(d.unique_relationships, rel),
          seen |-> d.seen \cup {RelKey(rel)}]
    ELSE d

\* the deduplication loop over all_relationships, from index i
RECURSIVE DedupRelationships(_, _, _)
DedupRelationships(d, all_relationships, i) ==
    IF i > Len(all_relationships) THEN d
    ELSE DedupRelationships(DedupRelationship(d, all_relationships[i]),
                            all_relationships, i + 1)

\* merge_knowledge_graphs(graphs): the returned graph and the heap it leaves
merge_knowledge_graphs(gs) ==
    LET m == MergeEntities([heap |-> gs, all_entities |-> <<>>, entity_map |-> <<>>], 1, 1)
        d == DedupRelationships([unique_relationships |-> <<>>, seen |-> {}],
                                AllRelationships(gs, 1), 1)
    IN  [kg |-> KnowledgeGraph(
                    [k \in 1..Len(m.all_entities) |-> Deref(m.heap, m.all_entities[k])],
                    d.unique_relationships),
         heap |-> m.heap]

----------------------------------------------------------------------------
(* Specification of the merger: any fragments, then one call of merge *)

NoGraph == KnowledgeGraph(<<>>, <<>>)

NoDb == [nodes |-> <<>>, edges |-> <<>>]

NoCall == [op |-> "none"]

\* no call of find_similar_entities, no run of process_text, no call of chunk_text
NoQuery == [op |-> "none"]

NoRun == [op |-> "none"]

NoChunking == [op |-> "none"]

\* main is not executed
NoMain == [op |-> "none"]

\* the variables of the other components
Idle ==
    /\ similar = NoQuery
    /\ run = NoRun
    /\ chunker = NoChunking
    /\ cli = NoMain

InitMerge ==
    /\ pc = "merge"
    /\ \E f \in 0..MaxGraphs :
       \E es \in SeqsUpTo(EntityPool, MaxItems) :
       \E rs \in SeqsUpTo(RelationshipPool, MaxItems - Len(es)) :
       \E ec \in Splits(Len(es), f), rc \in Splits(Len(rs), f) :
          graphs0 = [g \in 1..f |-> KnowledgeGraph(Part(es, ec, g), Part(rs, rc, g))]
    /\ graphs = graphs0
    /\ merged_kg = NoGraph
    /\ num_chunks = 0
    /\ responses = <<>>
    /\ db = NoDb
    /\ last_call = NoCall
    /\ num_calls = 0
    /\ Idle

\* merged = merge_knowledge_graphs(graphs)
Merge ==
    /\ pc = "merge"
    /\ LET r == merge_knowledge_graphs(graphs)
       IN  /\ merged_kg' = r.kg
           /\ graphs' = r.heap
    /\ pc' = "merged"
    /\ UNCHANGED <<graphs0, num_chunks, responses, db, last_call, num_calls,
                 similar, run, chunker, cli>>

NextMerge == Merge

SpecMerge == InitMerge /\ [][NextMerge]_vars

----------------------------------------------------------------------------
(* The merger's contract, stated over the input as it was handed in *)

Merged == pc = "merged"

RECURSIVE FlatEntities(_, _)
FlatEntities(gs, g) ==
    IF g > Len(gs) THEN <<>> ELSE gs[g].entities \o FlatEntities(gs, g + 1)

RECURSIVE FlatRelationships(_, _)
FlatRelationships(gs, g) ==
    IF g > Len(gs) THEN <<>> ELSE gs[g].relationships \o FlatRelationships(gs, g + 1)

\* the entity and relationship occurrences of the input, in fragment order
InputEntities == FlatEntities(graphs0, 1)

InputRelationships == FlatRelationships(graphs0, 1)

\* the k-th smallest element of a set of numbers
Nth(S, k) == CHOOSE x \in S : Cardinality({y \in S : y < x}) = k - 1

\* the elements of s at the indices in I, in order
AtIndices(s, I) == [k \in 1..Cardinality(I) |-> s[Nth(I, k)]]

\* indices of the occurrences of a name in the input
OccurrencesOf(name) == {i \in 1..Len(InputEntities) : InputEntities[i].name = name}

\* indices at which a name / a triple occurs for the first time
FirstSeenEntities ==
    {i \in 1..Len(InputEntities) :
        \A j \in 1..(i - 1) : InputEntities[j].name # InputEntities[i].name}

SameTriple(r1, r2) ==
    r1.source = r2.source /\ r1.target = r2.target /\ r1.type = r2.type

FirstSeenRelationships ==
    {i \in 1..Len(InputRelationships) :
        \A j \in 1..(i - 1) : ~SameTriple(InputRelationships[j], InputRelationships[i])}

\* properties of the first occurrence updated by each later one: a key is
\* present when an occurrence has it, with the value of the last that has it
UpdatedProperties(I) ==
    LET keys == UNION {DOMAIN InputEntities[i].properties : i \in I}
        Last(k) == CHOOSE i \in I :
                      /\ k \in DOMAIN InputEntities[i].properties
                      /\ \A j \in I : k \in DOMAIN InputEntities[j].properties => j <= i
    IN  [k \in keys |-> InputEntities[Last(k)].properties[k]]

\* C1: the merged graph holds exactly one entity for each distinct name of
\* the input fragments (exact, case-sensitive match) and no other entity
MergeOneEntityPerName ==
    Merged =>
        /\ {merged_kg.entities[k].name : k \in 1..Len(merged_kg.entities)}
             = {InputEntities[i].name : i \in 1..Len(InputEntities)}
        /\ \A k1, k2 \in 1..Len(merged_kg.entities) :
             merged_kg.entities[k1].name = merged_kg.entities[k2].name => k1 = k2

\* C1 witness: a name occurs twice and another name occurs too
MergeOneEntityPerNameWitness ==
    /\ Merged
    /\ Len(merged_kg.entities) = 2
    /\ Len(InputEntities) > 2
    /\ \E k \in 1..2 : merged_kg.entities[k].name = "AI"
    /\ \E k \in 1..2 : merged_kg.entities[k].name = "ai"

\* C2: a merged entity has the type of the first occurrence of its name and
\* the first occurrence's properties updated in turn by each later occurrence
MergeFirstTypeUpdatedProperties ==
    Merged =>
        \A k \in 1..Len(merged_kg.entities) :
            LET e == merged_kg.entities[k]
                I == OccurrencesOf(e.name)
            IN  /\ I # {}
                /\ e.type = InputEntities[Nth(I, 1)].type
                /\ e.properties = UpdatedProperties(I)

\* C2 witness: AI/Concept/{} in the first fragment, AI/Concept/{lang: ko, w: 5}
\* and then AI/Topic/{lang: en} in the second give AI/Concept/{lang: en, w: 5}
MergeFirstTypeUpdatedPropertiesWitness ==
    /\ Merged
    /\ graphs0 = << KnowledgeGraph(<<Entity("AI", "Concept", EmptyDict)>>, <<>>),
                    KnowledgeGraph(<<Entity("AI", "Concept", Dict2("lang", "ko", "w", "5")),
                                     Entity("AI", "Topic", Dict1("lang", "en"))>>, <<>>) >>
    /\ merged_kg.entities = <<Entity("AI", "Concept", Dict2("lang", "en", "w", "5"))>>

\* C3: the merged relationships are the first occurrences of the distinct
\* (source, target, type) triples, unchanged and in input order
MergeRelationshipsFirstWins ==
    Merged =>
        merged_kg.relationships = AtIndices(InputRelationships, FirstSeenRelationships)

\* C3 witness: a triple occurs twice with different properties, a second
\* triple occurs between or after them
MergeRelationshipsFirstWinsWitness ==
    /\ Merged
    /\ Len(InputRelationships) = 3
    /\ Len(merged_kg.relationships) = 2
    /\ \E i, j \in 1..3 :
          /\ i < j
          /\ SameTriple(InputRelationships[i], InputRelationships[j])
          /\ InputRelationships[i].properties # InputRelationships[j].properties

\* C4: the merged entities are in the order in which their names are first
\* seen in the input; a name seen again does not move
MergeEntitiesFirstSeenOrder ==
    Merged =>
        [k \in 1..Len(merged_kg.entities) |-> merged_kg.entities[k].name]
          = [k \in 1..Cardinality(FirstSeenEntities) |->
                InputEntities[Nth(FirstSeenEntities, k)].name]

\* C4 witness: "AI", then "ai", then "AI" again
MergeEntitiesFirstSeenOrderWitness ==
    /\ Merged
    /\ Len(InputEntities) = 3
    /\ InputEntities[1].name = "AI"
    /\ InputEntities[2].name = "ai"
    /\ InputEntities[3].name = "AI"
    /\ Len(merged_kg.entities) = 2
    /\ merged_kg.entities[1].name = "AI"

\* C5: merging the merged graph alone returns the merged graph again
MergeIdempotent ==
    Merged => merge_knowledge_graphs(<<merged_kg>>).kg = merged_kg

\* C5 witness: a merge that updated an entity seen twice, kept a second
\* entity and a relationship, and is merged again
MergeIdempotentWitness ==
    /\ Merged
    /\ Len(InputEntities) = 3
    /\ Len(merged_kg.entities) = 2
    /\ Len(merged_kg.relationships) = 1
    /\ graphs # graphs0
    /\ merge_knowledge_graphs(<<merged_kg>>).kg = merged_kg

\* C6: merge leaves every input fragment as it was
MergeLeavesInputUnchanged ==
    Merged => graphs = graphs0

----------------------------------------------------------------------------
(* LLMExtractor.extract: the generation call and the parsing of its response *)

\* A generation call either raises or returns a response whose content is a
\* text, inside a ``` fence or not. The text is no JSON ("garbage"), a JSON
\* array, or a JSON object; the values of the object's "entities" and
\* "relationships" keys are absent, null, or a list of elements.
AbsentField == [kind |-> "absent", items |-> <<>>]

NullField == [kind |-> "null", items |-> <<>>]

ListField(items) == [kind |-> "list", items |-> items]

RaisedCall ==
    [kind |-> "raise", fenced |-> FALSE, json |-> "none",
     entities |-> AbsentField, relationships |-> AbsentField]

TextResponse(fenced, json) ==
    [kind |-> "content", fenced |-> fenced, json |-> json,
     entities |-> AbsentField, relationships |-> AbsentField]

ObjectResponse(fenced, entities, relationships) ==
    [kind |-> "content", fenced |-> fenced, json |-> "object",
     entities |-> entities, relationships |-> relationships]

\* an element of a list: a JSON object (its keys and values) or a JSON string
ObjectElement(fields) == [kind |-> "object", fields |-> fields]

StringElement == [kind |-> "string", fields |-> <<>>]

\* elements the model may put into "entities": complete, without "properties",
\* without "name", and a bare string
RawEntityPool ==
    { ObjectElement([name |-> "AI", type |-> "Concept", properties |-> Dict1("lang", "en")]),
      ObjectElement([name |-> "ai", type |-> "Topic"]),
      ObjectElement([type |-> "Topic", properties |-> EmptyDict]),
      StringElement }

\* elements the model may put into "relationships": complete, and without "target"
RawRelationshipPool ==
    { ObjectElement([source |-> "AI", target |-> "ai", type |-> TypeWorksFor,
                     properties |-> Dict1("w", "5")]),
      ObjectElement([source |-> "AI", type |-> TypeWorksFor]) }

\* the values of a key that holds at most n elements (a key with the empty
\* list reads like an absent key: data.get(key, []))
Fields(pool, n) ==
    {AbsentField, NullField} \cup {ListField(s) : s \in SeqsUpTo(pool, n) \ {<<>>}}

\* the values of "entities" and "relationships" with at most n elements together
FieldPairs(n) ==
    UNION { { <<ef, rf>> : rf \in Fields(RawRelationshipPool, n - Len(ef.items)) } :
            ef \in Fields(RawEntityPool, n) }

\* the fence is drawn for the objects without a null
Fences(ef, rf) == IF NullField \in {ef, rf} THEN {FALSE} ELSE BOOLEAN

\* what a generation call may do when at most n elements are left: raise,
\* return a text that is no JSON object, or return a JSON object
ResponsesUpTo(n) ==
    {RaisedCall, TextResponse(FALSE, "garbage")}
    \cup {TextResponse(f, "array") : f \in BOOLEAN}
    \cup UNION { { ObjectResponse(f, p[1], p[2]) : f \in Fences(p[1], p[2]) } :
                 p \in FieldPairs(n) }

ElementsOf(resp) == Len(resp.entities.items) + Len(resp.relationships.items)

RECURSIVE ElementsOfAll(_)
ElementsOfAll(rs) ==
    IF rs = <<>> THEN 0 ELSE ElementsOf(Head(rs)) + ElementsOfAll(Tail(rs))

\* re.search(r"```(?:json)?\s*(\{.*\})\s*```", content): the fence is taken
\* off a fenced text in braces
StripFence(content) ==
    IF content.fenced /\ content.json = "object"
    THEN [content EXCEPT !.fenced = FALSE]
    ELSE content

\* Entity(**e): a pydantic model, name and type required
EntityFromElement(e) ==
    IF e.kind # "object" THEN [exc |-> "TypeError", value |-> <<>>]
    ELSE IF ~({"name", "type"} \subseteq DOMAIN e.fields)
    THEN [exc |-> "ValidationError", value |-> <<>>]
    ELSE [exc |-> "none",
          value |-> Entity(e.fields.name, e.fields.type,
                           IF "properties" \in DOMAIN e.fields
                           THEN e.fields.properties ELSE EmptyDict)]

\* Relationship(**r): a pydantic model, source, target and type required
RelationshipFromElement(r) ==
    IF r.kind # "object" THEN [exc |-> "TypeError", value |-> <<>>]
    ELSE IF ~({"source", "target", "type"} \subseteq DOMAIN r.fields)
    THEN [exc |-> "ValidationError", value |-> <<>>]
    ELSE [exc |-> "none",
          value |-> Relationship(r.fields.source, r.fields.target, r.fields.type,
                                 IF "properties" \in DOMAIN r.fields
                                 THEN r.fields.properties ELSE EmptyDict)]

\* the body of the try block: the exception it ends with ("none": it returns kg)
ExtractTry(resp) ==
    LET failed(exc) == [exc |-> exc, kg |-> NoGraph]
    IN
    IF resp.kind = "raise" THEN failed("InvokeError")
    ELSE LET content == StripFence(resp)
         IN
         \* data = json.loads(content)
         IF content.fenced \/ content.json = "garbage" THEN failed("JSONDecodeError")
         \* data.get("entities", [])
         ELSE IF content.json # "object" THEN failed("AttributeError")
         ELSE IF content.entities.kind = "null" \/ content.relationships.kind = "null"
         THEN failed("TypeError")
         ELSE LET es == [k \in 1..Len(content.entities.items) |->
                            EntityFromElement(content.entities.items[k])]
                  rs == [k \in 1..Len(content.relationships.items) |->
                            RelationshipFromElement(content.relationships.items[k])]
              IN  IF \E k \in 1..Len(es) : es[k].exc # "none"
                  THEN failed(es[CHOOSE k \in 1..Len(es) :
                                    /\ es[k].exc # "none"
                                    /\ \A j \in 1..(k - 1) : es[j].exc = "none"].exc)
                  ELSE IF \E k \in 1..Len(rs) : rs[k].exc # "none"
                  THEN failed(rs[CHOOSE k \in 1..Len(rs) :
                                    /\ rs[k].exc # "none"
                                    /\ \A j \in 1..(k - 1) : rs[j].exc = "none"].exc)
                  ELSE [exc |-> "none",
                        kg |-> KnowledgeGraph([k \in 1..Len(es) |-> es[k].value],
                                              [k \in 1..Len(rs) |-> rs[k].value])]

\* an extract whose handler is "except json.JSONDecodeError"
extractCatchJsonOnly(resp) ==
    LET r == ExtractTry(resp)
    IN  IF r.exc = "none" THEN [raised |-> FALSE, kg |-> r.kg]
        ELSE IF r.exc = "JSONDecodeError" THEN [raised |-> FALSE, kg |-> NoGraph]
        ELSE [raised |-> TRUE, kg |-> NoGraph]

\* extract(text): try ... except Exception: return the empty KnowledgeGraph
extract(resp) ==
    LET r == ExtractTry(resp)
    IN  IF r.exc = "none" THEN [raised |-> FALSE, kg |-> r.kg]
        ELSE [raised |-> FALSE, kg |-> NoGraph]

----------------------------------------------------------------------------
(* Specification of the extraction loop: extract_batch and the loop of      *)
(* process_text call extract once per chunk and collect the fragments       *)

InitExtract ==
    /\ pc = "extract"
    /\ num_chunks \in 0..MaxGraphs
    /\ responses = <<>>
    /\ graphs = <<>>
    /\ graphs0 = <<>>
    /\ merged_kg = NoGraph
    /\ db = NoDb
    /\ last_call = NoCall
    /\ num_calls = 0
    /\ Idle

\* a loop that leaves out the chunks that gave nothing
ExtractChunkSkipEmpty ==
    /\ pc = "extract"
    /\ Len(responses) < num_chunks
    /\ \E resp \in ResponsesUpTo(MaxElements - ElementsOfAll(responses)) :
          LET r == extract(resp)
          IN  /\ responses' = Append(responses, resp)
              /\ graphs' = IF r.kg = NoGraph THEN graphs ELSE Append(graphs, r.kg)
              /\ pc' = "extract"
    /\ UNCHANGED <<graphs0, merged_kg, num_chunks, db, last_call, num_calls,
                 similar, run, chunker, cli>>

\* one iteration: kg = self.extractor.extract(chunk); graphs.append(kg)
ExtractChunk ==
    /\ pc = "extract"
    /\ Len(responses) < num_chunks
    /\ \E resp \in ResponsesUpTo(MaxElements - ElementsOfAll(responses)) :
          LET r == extract(resp)
          IN  /\ responses' = Append(responses, resp)
              /\ graphs' = IF r.raised THEN graphs ELSE Append(graphs, r.kg)
              /\ pc' = IF r.raised THEN "raised" ELSE "extract"
    /\ UNCHANGED <<graphs0, merged_kg, num_chunks, db, last_call, num_calls,
                 similar, run, chunker, cli>>

\* the loop ends after the last chunk
ExtractDone ==
    /\ pc = "extract"
    /\ Len(responses) = num_chunks
    /\ pc' = "extracted"
    /\ UNCHANGED <<graphs0, graphs, merged_kg, num_chunks, responses, db, last_call, num_calls,
                 similar, run, chunker, cli>>

NextExtract == ExtractChunk \/ ExtractDone

SpecExtract == InitExtract /\ [][NextExtract]_vars

----------------------------------------------------------------------------
(* The extractor's contract *)

ElementHasKeys(e, keys) == e.kind = "object" /\ keys \subseteq DOMAIN e.fields

ValidEntityElement(e) == ElementHasKeys(e, {"name", "type"})

ValidRelationshipElement(r) == ElementHasKeys(r, {"source", "target", "type"})

\* the response is a JSON object (fenced or not) whose entities and
\* relationships are lists, where a missing key counts as the empty list
HasLists(resp) ==
    /\ resp.kind = "content"
    /\ resp.json = "object"
    /\ resp.entities.kind # "null"
    /\ resp.relationships.kind # "null"

\* the generation call failed or the response cannot be structurally parsed
Unparseable(resp) ==
    \/ ~HasLists(resp)
    \/ \E k \in 1..Len(resp.entities.items) : ~ValidEntityElement(resp.entities.items[k])
    \/ \E k \in 1..Len(resp.relationships.items) :
          ~ValidRelationshipElement(resp.relationships.items[k])

PropertiesOfElement(e) ==
    IF "properties" \in DOMAIN e.fields THEN e.fields.properties ELSE EmptyDict

\* the fragment that the valid elements of a response make
ValidFragment(resp) ==
    LET es == SelectSeq(resp.entities.items, ValidEntityElement)
        rs == SelectSeq(resp.relationships.items, ValidRelationshipElement)
    IN  [entities |->
            [k \in 1..Len(es) |->
                [name |-> es[k].fields.name, type |-> es[k].fields.type,
                 properties |-> PropertiesOfElement(es[k])]],
         relationships |->
            [k \in 1..Len(rs) |->
                [source |-> rs[k].fields.source, target |-> rs[k].fields.target,
                 type |-> rs[k].fields.type, properties |-> PropertiesOfElement(rs[k])]]]

EmptyFragment == [entities |-> <<>>, relationships |-> <<>>]

\* C7: extract never raises; a failed generation call or a response that
\* cannot be structurally parsed gives the empty fragment
ExtractNeverRaises ==
    /\ pc # "raised"
    /\ Len(graphs) = Len(responses)
    /\ \A i \in 1..Len(graphs) : Unparseable(responses[i]) => graphs[i] = EmptyFragment

\* C7 witness: a raised call, a text that is no JSON and a list with an
\* element of the wrong shape, each answered with the empty fragment
ExtractNeverRaisesWitness ==
    /\ pc = "extracted"
    /\ Len(graphs) = 2
    /\ \E i, j \in 1..2 :
          /\ responses[i].kind = "raise"
          /\ HasLists(responses[j])
          /\ Len(responses[j].entities.items) = 2
          /\ Unparseable(responses[j])
    /\ graphs = <<EmptyFragment, EmptyFragment>>

\* the response has elements of the right shape and elements of the wrong one
MixedElements(resp) ==
    LET elements == resp.entities.items \o resp.relationships.items
        Valid(k) == IF k <= Len(resp.entities.items)
                    THEN ValidEntityElement(elements[k])
                    ELSE ValidRelationshipElement(elements[k])
    IN  /\ \E k \in 1..Len(elements) : Valid(k)
        /\ \E k \in 1..Len(elements) : ~Valid(k)

\* C8: of a parseable response with valid and invalid elements, extract
\* drops the invalid ones only and returns the fragment of all the valid ones
ExtractDropsOnlyInvalidElements ==
    \A i \in 1..Len(graphs) :
        HasLists(responses[i]) /\ MixedElements(responses[i])
            => graphs[i] = ValidFragment(responses[i])

\* C9: one fragment per chunk, in chunk order, each decided by its own
\* chunk's response alone: empty when that chunk failed, the response's
\* entities and relationships otherwise
ExtractBatchPerChunk ==
    /\ Len(graphs) = Len(responses)
    /\ Len(graphs) <= num_chunks
    /\ pc = "extracted" => Len(graphs) = num_chunks
    /\ \A i \in 1..Len(graphs) :
          graphs[i] = IF Unparseable(responses[i])
                      THEN EmptyFragment ELSE ValidFragment(responses[i])

\* C9 witness: the first chunk fails, the second gives a fragment
ExtractBatchPerChunkWitness ==
    /\ pc = "extracted"
    /\ num_chunks = 2
    /\ Unparseable(responses[1])
    /\ Len(responses[1].entities.items) > 0
    /\ graphs[1] = EmptyFragment
    /\ Len(graphs[2].entities) + Len(graphs[2].relationships) = 1

----------------------------------------------------------------------------
(* Neo4jStorage: the store and its operations *)

\* The store holds nodes, each with one label and a name, and edges between
\* two nodes with a type. db.nodes maps <<label, name>> to the node's other
\* properties, db.edges maps <<source node, target node, type>> to the
\* edge's properties.

\* an optional embedding argument
NoEmbedding == [some |-> FALSE, vec |-> <<>>]

SomeEmbedding(vec) == [some |-> TRUE, vec |-> vec]

\* SET x += $properties
SetProperties(old, properties) ==
    [k \in (DOMAIN old) \cup (DOMAIN properties) |->
        IF k \in DOMAIN properties THEN properties[k] ELSE old[k]]

\* relationship_type.upper()
UpperChar(c) ==
    CASE c = "i" -> "I"
      [] c = "s" -> "S"
      [] c = "a" -> "A"
      [] OTHER -> c

\* .replace(" ", "_").replace("-", "_")
ReplaceChar(c) == IF c = " " \/ c = "-" THEN "_" ELSE c

\* rel_type = relationship_type.upper().replace(" ", "_").replace("-", "_")
SanitizeType(relationship_type) ==
    [k \in 1..Len(relationship_type) |-> ReplaceChar(UpperChar(relationship_type[k]))]

\* MATCH (n {name: $name}): the nodes of that name, of any label
NodesNamed(d, name) == {n \in DOMAIN d.nodes : n[2] = name}

\* create_entity(name, entity_type, properties, embedding): the store after the
\* call and the caller's properties dict after it
create_entity(d, name, entity_type, properties, embedding) ==
    LET props == IF embedding.some
                 THEN [k \in (DOMAIN properties) \cup {"embedding"} |->
                          IF k = "embedding" THEN embedding.vec ELSE properties[k]]
                 ELSE properties
        node == <<entity_type, name>>
    IN  [db |-> [d EXCEPT !.nodes =
                    IF node \in DOMAIN d.nodes
                    THEN [d.nodes EXCEPT ![node] = SetProperties(@, props)]
                    ELSE [n \in (DOMAIN d.nodes) \cup {node} |->
                             IF n = node THEN props ELSE d.nodes[n]]],
         properties |-> props]

\* create_relationship(source_name, target_name, relationship_type, properties)
create_relationship(d, source_name, target_name, relationship_type, properties) ==
    LET rel_type == SanitizeType(relationship_type)
        matched == {<<s, t, rel_type>> : s \in NodesNamed(d, source_name),
                                          t \in NodesNamed(d, target_name)}
    IN  [d EXCEPT !.edges =
            [e \in (DOMAIN d.edges) \cup matched |->
                IF e \notin matched THEN d.edges[e]
                ELSE IF e \in DOMAIN d.edges THEN SetProperties(d.edges[e], properties)
                ELSE properties]]

\* embeddings.get(entity.name)
EmbeddingFor(embeddings, name) ==
    IF name \in DOMAIN embeddings THEN SomeEmbedding(embeddings[name]) ELSE NoEmbedding

\* the loop over kg.entities, from index i: st is [db, kg, upserts]
RECURSIVE StoreEntities(_, _, _)
StoreEntities(st, embeddings, i) ==
    IF i > Len(st.kg.entities) THEN st
    ELSE LET entity == st.kg.entities[i]
             embedding == EmbeddingFor(embeddings, entity.name)
             r == create_entity(st.db, entity.name, entity.type, entity.properties, embedding)
         IN  StoreEntities(
                [db |-> r.db,
                 kg |-> [st.kg EXCEPT !.entities[i].properties = r.properties],
                 upserts |-> Append(st.upserts,
                                [op |-> "create_entity", name |-> entity.name,
                                 embedding |-> embedding])],
                embeddings, i + 1)

\* the loop over kg.relationships, from index i
RECURSIVE StoreRelationships(_, _)
StoreRelationships(st, i) ==
    IF i > Len(st.kg.relationships) THEN st
    ELSE LET relationship == st.kg.relationships[i]
         IN  StoreRelationships(
                [db |-> create_relationship(st.db, relationship.source, relationship.target,
                                            relationship.type, relationship.properties),
                 kg |-> st.kg,
                 upserts |-> Append(st.upserts,
                                [op |-> "create_relationship",
                                 source |-> relationship.source,
                                 target |-> relationship.target,
                                 type |-> relationship.type])],
                i + 1)

\* store_knowledge_graph with its two loops exchanged
store_knowledge_graphRelationshipsFirst(d, kg, embeddings) ==
    StoreEntities(
        StoreRelationships([db |-> d, kg |-> kg, upserts |-> <<>>], 1), embeddings, 1)

\* store_knowledge_graph(kg, embeddings): the store and the caller's graph
\* after the call, and the upserts issued
store_knowledge_graph(d, kg, embeddings) ==
    StoreRelationships(
        StoreEntities([db |-> d, kg |-> kg, upserts |-> <<>>], embeddings, 1), 1)

----------------------------------------------------------------------------
(* Specification of the storage layer: its operations, called in any order *)

\* the vector the embedder returns for a text
EmbeddingOf(text) == IF text = "AI" THEN <<1, 0>> ELSE <<1, 1>>

StoreNames == {"AI", "ai"}

StoreLabels == {"Concept", "Topic"}

StoreProperties == {EmptyDict, Dict1("lang", "en")}

StoreEntityPool ==
    { Entity("AI", "Concept", Dict1("lang", "en")),
      Entity("ai", "Topic", EmptyDict) }

\* two triples that differ before and agree after create_relationship's rewriting
StoreRelationshipPool ==
    { Relationship("AI", "ai", TypeWorksFor, EmptyDict),
      Relationship("AI", "ai", TypeWorksForHyphen, Dict1("w", "7")) }

\* graphs as merge_knowledge_graphs returns them: no name and no triple twice
StoredGraphs ==
    UNION { { KnowledgeGraph(es, rs) :
                rs \in { q \in SeqsUpTo(StoreRelationshipPool, MaxStored - Len(es)) :
                           \A i, j \in 1..Len(q) :
                               <<q[i].source, q[i].target, q[i].type>>
                                 = <<q[j].source, q[j].target, q[j].type>> => i = j } } :
            es \in { q \in SeqsUpTo(StoreEntityPool, MaxStored) :
                       \A i, j \in 1..Len(q) : q[i].name = q[j].name => i = j } }

\* the embedding maps for a graph: a vector for none, some or all of its names
EmbeddingMaps(kg) ==
    { [n \in N |-> EmbeddingOf(n)] :
        N \in SUBSET {kg.entities[i].name : i \in 1..Len(kg.entities)} }

InitStore ==
    /\ pc = "store"
    /\ db = NoDb
    /\ last_call = NoCall
    /\ num_calls = 0
    /\ Idle
    /\ merged_kg = NoGraph
    /\ graphs0 = <<>>
    /\ graphs = <<>>
    /\ num_chunks = 0
    /\ responses = <<>>

StoreFrame == UNCHANGED <<pc, graphs0, graphs, num_chunks, responses, similar, run, chunker, cli>>

\* storage.clear_database()
ClearDatabase ==
    /\ pc = "store"
    /\ num_calls < MaxCalls
    /\ db' = NoDb
    /\ last_call' = [op |-> "clear_database"]
    /\ num_calls' = num_calls + 1
    /\ UNCHANGED merged_kg
    /\ StoreFrame

\* storage.create_entity(name, entity_type, properties, embedding)
CreateEntity ==
    /\ pc = "store"
    /\ num_calls < MaxCalls
    /\ \E name \in StoreNames, entity_type \in StoreLabels, properties \in StoreProperties,
          embedding \in {NoEmbedding, SomeEmbedding(<<1, 0>>)} :
          /\ db' = create_entity(db, name, entity_type, properties, embedding).db
          /\ last_call' = [op |-> "create_entity", name |-> name, type |-> entity_type,
                           properties |-> properties, embedding |-> embedding]
    /\ num_calls' = num_calls + 1
    /\ UNCHANGED merged_kg
    /\ StoreFrame

\* storage.create_relationship(source_name, target_name, relationship_type, properties)
CreateRelationship ==
    /\ pc = "store"
    /\ num_calls < MaxCalls
    /\ \E source_name \in StoreNames, target_name \in StoreNames,
          relationship_type \in {TypeWorksFor, TypeWorksForUpper},
          properties \in StoreProperties :
          /\ db' = create_relationship(db, source_name, target_name, relationship_type,
                                       properties)
          /\ last_call' = [op |-> "create_relationship", source |-> source_name,
                           target |-> target_name, type |-> relationship_type,
                           properties |-> properties]
    /\ num_calls' = num_calls + 1
    /\ UNCHANGED merged_kg
    /\ StoreFrame

\* storage.store_knowledge_graph(kg, embeddings)
StoreKnowledgeGraph ==
    /\ pc = "store"
    /\ num_calls < MaxCalls
    /\ \E kg \in StoredGraphs :
       \E embeddings \in EmbeddingMaps(kg) :
          LET r == store_knowledge_graph(db, kg, embeddings)
          IN  /\ db' = r.db
              /\ merged_kg' = r.kg
              /\ last_call' = [op |-> "store_knowledge_graph", kg |-> kg,
                               embeddings |-> embeddings, upserts |-> r.upserts]
    /\ num_calls' = num_calls + 1
    /\ StoreFrame

NextStore == ClearDatabase \/ CreateEntity \/ CreateRelationship \/ StoreKnowledgeGraph

SpecStore == InitStore /\ [][NextStore]_vars

----------------------------------------------------------------------------
(* The storage layer's contract *)

\* an edge of the sanitized type joins a node named source to a node named target
EdgeStored(source, target, type) ==
    \E e \in DOMAIN db.edges :
        /\ e[1][2] = source
        /\ e[2][2] = target
        /\ e[3] = [k \in 1..Len(type) |->
                      IF type[k] \in {" ", "-"} THEN "_"
                      ELSE IF type[k] = "i" THEN "I"
                      ELSE IF type[k] = "s" THEN "S"
                      ELSE IF type[k] = "a" THEN "A" ELSE type[k]]
        /\ e[1] \in DOMAIN db.nodes
        /\ e[2] \in DOMAIN db.nodes

\* C10: create_relationship creates the missing endpoints and then the edge,
\* so after store_knowledge_graph every relationship of the graph is an edge
CreateRelationshipStoresEdge ==
    /\ last_call.op = "create_relationship" =>
          EdgeStored(last_call.source, last_call.target, last_call.type)
    /\ last_call.op = "store_knowledge_graph" =>
          \A i \in 1..Len(last_call.kg.relationships) :
              EdgeStored(last_call.kg.relationships[i].source,
                         last_call.kg.relationships[i].target,
                         last_call.kg.relationships[i].type)

\* C11: the store holds at most one node for each name, whatever the types
\* the name was upserted with
StoreOneNodePerName ==
    \A n, m \in DOMAIN db.nodes : n[2] = m[2] => n = m

\* C12: store_knowledge_graph issues one create_entity per entity, in the
\* graph's order and with the embedding the map holds for the name (none when
\* the name is absent), and after the last of them one create_relationship
\* per relationship, in the graph's order
StoreUpsertsInGraphOrder ==
    last_call.op = "store_knowledge_graph" =>
        LET kg == last_call.kg
            u == last_call.upserts
            ne == Len(kg.entities)
        IN  /\ Len(u) = ne + Len(kg.relationships)
            /\ \A i \in 1..ne :
                  /\ u[i].op = "create_entity"
                  /\ u[i].name = kg.entities[i].name
                  /\ u[i].embedding =
                        IF kg.entities[i].name \in DOMAIN last_call.embeddings
                        THEN [some |-> TRUE,
                              vec |-> last_call.embeddings[kg.entities[i].name]]
                        ELSE [some |-> FALSE, vec |-> <<>>]
            /\ \A j \in 1..Len(kg.relationships) :
                  /\ u[ne + j].op = "create_relationship"
                  /\ u[ne + j].source = kg.relationships[j].source
                  /\ u[ne + j].target = kg.relationships[j].target
                  /\ u[ne + j].type = kg.relationships[j].type

\* C12 witness: a graph of two entities, one of them with a vector in the map,
\* and a relationship has been stored
StoreUpsertsInGraphOrderWitness ==
    /\ last_call.op = "store_knowledge_graph"
    /\ Len(last_call.kg.entities) = 2
    /\ Len(last_call.kg.relationships) = 1
    /\ Cardinality(DOMAIN last_call.embeddings) = 1
    /\ last_call.kg.entities[2].name \in DOMAIN last_call.embeddings

----------------------------------------------------------------------------
(* Neo4jStorage.find_similar_entities *)

\* Vectors have integer components. A similarity is kept exact as the pair
\* [dot, nsq] that stands for dot / sqrt(nsq): for np.dot(q, e) / (|q| * |e|)
\* dot is np.dot(q, e) and nsq is |q|^2 * |e|^2, for a threshold num / den it
\* is [num, den ^ 2].

RECURSIVE DotFrom(_, _, _)
DotFrom(u, v, k) == IF k > Len(u) THEN 0 ELSE u[k] * v[k] + DotFrom(u, v, k + 1)

\* np.dot(u, v)
Dot(u, v) == DotFrom(u, v, 1)

\* np.linalg.norm(v), squared
NormSquared(v) == Dot(v, v)

\* a norm test that lets every vector through
NormAlwaysPositive(v) == TRUE

\* np.linalg.norm(v) > 0
NormPositive(v) == NormSquared(v) > 0

\* np.dot(query_vec, entity_vec) / (query_norm * entity_norm)
CosineSimilarity(query_vec, entity_vec) ==
    [dot |-> Dot(query_vec, entity_vec),
     nsq |-> NormSquared(query_vec) * NormSquared(entity_vec)]

\* the float num / den
Ratio(num, den) == [dot |-> num, nsq |-> den * den]

\* a >= b on floats; a division by zero gives nan, and no comparison with nan holds
Geq(a, b) ==
    IF a.nsq = 0 \/ b.nsq = 0 THEN FALSE
    ELSE IF a.dot >= 0 /\ b.dot < 0 THEN TRUE
    ELSE IF a.dot < 0 /\ b.dot >= 0 THEN FALSE
    ELSE IF a.dot >= 0 THEN a.dot * a.dot * b.nsq >= b.dot * b.dot * a.nsq
    ELSE a.dot * a.dot * b.nsq <= b.dot * b.dot * a.nsq

\* the nodes that pass WHERE n.embedding IS NOT NULL
EmbeddedNodes(d) == {n \in DOMAIN d.nodes : "embedding" \in DOMAIN d.nodes[n]}

Min(a, b) == IF a <= b THEN a ELSE b

\* the rows MATCH (n) WHERE n.embedding IS NOT NULL RETURN n.name, n.embedding
\* LIMIT $limit can return: the query has no ORDER BY, so any limit of the
\* nodes in any order
Rows(d, limit) ==
    LET k == Min(limit, Cardinality(EmbeddedNodes(d)))
    IN  { [i \in 1..k |-> [name |-> q[i][2], embedding |-> d.nodes[q[i]].embedding]] :
            q \in { f \in [1..k -> EmbeddedNodes(d)] :
                      \A i, j \in 1..k : f[i] = f[j] => i = j } }

\* the loop over the rows, from row i: st is [similar_entities, zero_division]
RECURSIVE ScanRows(_, _, _, _, _)
ScanRows(st, results, embedding, threshold, i) ==
    IF i > Len(results) THEN st
    ELSE LET entity_embedding == results[i].embedding
             similarity == CosineSimilarity(embedding, entity_embedding)
         IN  ScanRows(
                IF /\ Len(entity_embedding) > 0
                   /\ NormPositive(embedding)
                   /\ NormPositive(entity_embedding)
                THEN [similar_entities |->
                         IF Geq(similarity, threshold)
                         THEN Append(st.similar_entities,
                                     [name |-> results[i].name, similarity |-> similarity])
                         ELSE st.similar_entities,
                      zero_division |-> st.zero_division \/ similarity.nsq = 0]
                ELSE st,
                results, embedding, threshold, i + 1)

\* x put into a list in descending order, behind the elements that are not smaller
InsertDescending(sorted, x) ==
    LET k == Cardinality({i \in 1..Len(sorted) : Geq(sorted[i].similarity, x.similarity)})
    IN  SubSeq(sorted, 1, k) \o <<x>> \o SubSeq(sorted, k + 1, Len(sorted))

RECURSIVE SortFrom(_, _, _)
SortFrom(sorted, seq, i) ==
    IF i > Len(seq) THEN sorted
    ELSE SortFrom(InsertDescending(sorted, seq[i]), seq, i + 1)

\* a sort that leaves the list as it is
SortKeepOrder(seq) == seq

\* similar_entities.sort(key=lambda x: x["similarity"], reverse=True): stable
SortDescending(seq) == SortFrom(<<>>, seq, 1)

\* find_similar_entities(embedding, limit, threshold), on the rows the query returned
find_similar_entities(results, embedding, limit, threshold) ==
    LET st == ScanRows([similar_entities |-> <<>>, zero_division |-> FALSE],
                       results, embedding, threshold, 1)
        sorted == SortDescending(st.similar_entities)
    IN  [result |-> SubSeq(sorted, 1, Min(limit, Len(sorted))),
         zero_division |-> st.zero_division]

----------------------------------------------------------------------------
(* Specification of the similarity search: entities are upserted, with or *)
(* without a vector, and then find_similar_entities is called once        *)

QueryNames == {"AI", "ai", "ML"}

\* stored vectors: an empty list, a zero vector, and three directions
StoredVectors == {<<>>, <<0, 0>>, <<1, 0>>, <<1, 1>>, <<-1, 0>>}

QueryVectors == {<<1, 0>>, <<0, 1>>, <<0, 0>>}

\* 0.7 is the default threshold
Thresholds == {Ratio(7, 10), Ratio(0, 1), Ratio(-1, 1)}

InitQuery ==
    /\ pc = "query"
    /\ db = NoDb
    /\ similar = NoQuery
    /\ run = NoRun
    /\ chunker = NoChunking
    /\ cli = NoMain
    /\ last_call = NoCall
    /\ num_calls = 0
    /\ merged_kg = NoGraph
    /\ graphs0 = <<>>
    /\ graphs = <<>>
    /\ num_chunks = 0
    /\ responses = <<>>

QueryFrame ==
    UNCHANGED <<graphs0, graphs, merged_kg, num_chunks, responses, last_call, num_calls,
                run, chunker, cli>>

\* storage.create_entity(name, "Concept", {}, embedding)
QueryCreateEntity ==
    /\ pc = "query"
    /\ \E name \in QueryNames :
       \E embedding \in {NoEmbedding} \cup {SomeEmbedding(v) : v \in StoredVectors} :
          db' = create_entity(db, name, "Concept", EmptyDict, embedding).db
    /\ UNCHANGED <<pc, similar>>
    /\ QueryFrame

\* storage.find_similar_entities(embedding, limit, threshold)
FindSimilarEntities ==
    /\ pc = "query"
    /\ \E embedding \in QueryVectors, limit \in 0..MaxLimit, threshold \in Thresholds :
       \E results \in Rows(db, limit * 2) :
          LET r == find_similar_entities(results, embedding, limit, threshold)
          IN  similar' = [op |-> "find_similar_entities", embedding |-> embedding,
                          limit |-> limit, threshold |-> threshold, results |-> results,
                          result |-> r.result, zero_division |-> r.zero_division]
    /\ pc' = "queried"
    /\ UNCHANGED db
    /\ QueryFrame

NextQuery == QueryCreateEntity \/ FindSimilarEntities

SpecQuery == InitQuery /\ [][NextQuery]_vars

----------------------------------------------------------------------------
(* The similarity search's contract *)

SignedSquare(x) == IF x >= 0 THEN x * x ELSE 0 - x * x

\* score a is at least score b, both with a non-zero denominator
ScoreAtLeast(a, b) == SignedSquare(a.dot) * b.nsq >= SignedSquare(b.dot) * a.nsq

NonZero(v) == \E k \in 1..Len(v) : v[k] # 0

\* the cosine similarity of the query vector and the vector of stored node n
StoredScore(n) ==
    LET q == similar.embedding
        e == db.nodes[n].embedding
    IN  [dot |-> q[1] * e[1] + q[2] * e[2],
         nsq |-> (q[1] * q[1] + q[2] * q[2]) * (e[1] * e[1] + e[2] * e[2])]

\* the stored nodes whose cosine similarity with the query vector is defined
\* and reaches the threshold
ReachingThreshold ==
    { n \in DOMAIN db.nodes :
        /\ "embedding" \in DOMAIN db.nodes[n]
        /\ NonZero(db.nodes[n].embedding)
        /\ NonZero(similar.embedding)
        /\ ScoreAtLeast(StoredScore(n), similar.threshold) }

\* C13: the result of find_similar_entities is sorted by non-increasing
\* similarity, every similarity in it is at least the threshold, it has at
\* most limit elements, and it is empty when no stored vector reaches the
\* threshold
SimilarSortedAboveThreshold ==
    similar.op = "find_similar_entities" =>
        LET r == similar.result
        IN  /\ Len(r) <= similar.limit
            /\ \A i \in 1..Len(r) : ScoreAtLeast(r[i].similarity, similar.threshold)
            /\ \A i, j \in 1..Len(r) :
                  i < j => ScoreAtLeast(r[i].similarity, r[j].similarity)
            /\ ReachingThreshold = {} => r = <<>>

\* C13 witness: two entities are returned, the second with a smaller
\* similarity, from rows that held them in the other order and a third row
\* below the threshold
SimilarSortedAboveThresholdWitness ==
    /\ similar.op = "find_similar_entities"
    /\ similar.limit = 2
    /\ Len(similar.results) = 3
    /\ Len(similar.result) = 2
    /\ similar.result[1].name = similar.results[3].name
    /\ similar.result[2].name = similar.results[1].name
    /\ ~ScoreAtLeast(similar.result[2].similarity, similar.result[1].similarity)

\* C14: the result is what comparing the query vector with every stored
\* embedding gives: min(limit, number of stored entities reaching the
\* threshold) elements, and no stored entity left out scores higher than one
\* returned
SimilarEqualsReference ==
    similar.op = "find_similar_entities" =>
        LET r == similar.result
        IN  /\ Len(r) = Min(similar.limit, Cardinality(ReachingThreshold))
            /\ \A i \in 1..Len(r) : \E n \in ReachingThreshold : n[2] = r[i].name
            /\ \A n \in ReachingThreshold :
                  (\A i \in 1..Len(r) : r[i].name # n[2]) =>
                      \A i \in 1..Len(r) : ScoreAtLeast(r[i].similarity, StoredScore(n))

\* C15: a query vector of norm zero gives the empty result, a stored vector
\* of norm zero is never in the result, whatever the threshold, and no
\* similarity is computed with a zero denominator
SimilarZeroNormNeverMatches ==
    similar.op = "find_similar_entities" =>
        /\ ~similar.zero_division
        /\ ~NonZero(similar.embedding) => similar.result = <<>>
        /\ \A i \in 1..Len(similar.result) :
              \A n \in DOMAIN db.nodes :
                  n[2] = similar.result[i].name => NonZero(db.nodes[n].embedding)

\* C15 witness: with a threshold below every similarity, a row with a zero
\* vector is passed over and another row is returned
SimilarZeroNormNeverMatchesWitness ==
    /\ similar.op = "find_similar_entities"
    /\ similar.threshold = Ratio(-1, 1)
    /\ \E i \in 1..Len(similar.results) : similar.results[i].embedding = <<0, 0>>
    /\ Len(similar.result) = 1
    /\ similar.limit = 2

----------------------------------------------------------------------------
(* chunk_text and the RecursiveCharacterTextSplitter it calls *)

\* A text is a sequence of characters. chunk_text builds the splitter with
\* keep_separator and strip_whitespace at their defaults (both true), so
\* every merge joins its splits with the empty string, and chunk_overlap is
\* never negative in a call that reaches the merge.

\* a separator list without the empty string at its end
SeparatorsWithoutFallback == << <<"\n", "\n">>, <<"\n">>, <<" ">> >>

\* separators = ["\n\n", "\n", " ", ""]
DefaultSeparators == << <<"\n", "\n">>, <<"\n">>, <<" ">>, <<>> >>

Whitespace == {" ", "\n"}

RECURSIVE LStrip(_)
LStrip(t) == IF t # <<>> /\ Head(t) \in Whitespace THEN LStrip(Tail(t)) ELSE t

RECURSIVE RStrip(_)
RStrip(t) ==
    IF t # <<>> /\ t[Len(t)] \in Whitespace THEN RStrip(SubSeq(t, 1, Len(t) - 1)) ELSE t

\* text.strip()
Strip(t) == RStrip(LStrip(t))

\* the separator is at position i of the text
Occurs(separator, text, i) ==
    /\ i + Len(separator) - 1 <= Len(text)
    /\ SubSeq(text, i, i + Len(separator) - 1) = separator

\* re.search(re.escape(separator), text)
Contains(text, separator) == \E i \in 1..Len(text) : Occurs(separator, text, i)

\* re.split("(separator)", text), each separator joined to the piece behind it
RECURSIVE SplitKeep(_, _, _, _, _)
SplitKeep(text, separator, i, piece, splits) ==
    IF i > Len(text) THEN Append(splits, piece)
    ELSE IF Occurs(separator, text, i)
         THEN SplitKeep(text, separator, i + Len(separator), separator, Append(splits, piece))
         ELSE SplitKeep(text, separator, i + 1, Append(piece, text[i]), splits)

\* _split_text_with_regex(text, separator, keep_separator=True)
split_text_with_regex(text, separator) ==
    SelectSeq(IF separator # <<>>
              THEN SplitKeep(text, separator, 1, <<>>, <<>>)
              ELSE [k \in 1..Len(text) |-> <<text[k]>>],
              LAMBDA piece : piece # <<>>)

\* "".join(docs)
RECURSIVE Join(_)
Join(docs) == IF docs = <<>> THEN <<>> ELSE Head(docs) \o Join(Tail(docs))

\* doc = self._join_docs(current_doc, separator); if doc is not None: docs.append(doc)
AppendDoc(docs, current_doc) ==
    LET text == Strip(Join(current_doc))
    IN  IF text = <<>> THEN docs ELSE Append(docs, text)

\* the while loop of _merge_splits: m is [current_doc, total], len the length
\* of the split that comes next
RECURSIVE PopSplits(_, _, _, _)
PopSplits(m, len, chunk_size, chunk_overlap) ==
    IF \/ m.total > chunk_overlap
       \/ (m.total + len > chunk_size /\ m.total > 0)
    THEN PopSplits([current_doc |-> Tail(m.current_doc),
                    total |-> m.total - Len(Head(m.current_doc))],
                   len, chunk_size, chunk_overlap)
    ELSE m

\* the for loop of _merge_splits, from split i: m is [docs, current_doc, total]
RECURSIVE MergeFrom(_, _, _, _, _)
MergeFrom(m, splits, i, chunk_size, chunk_overlap) ==
    IF i > Len(splits) THEN AppendDoc(m.docs, m.current_doc)
    ELSE LET d == splits[i]
             p == PopSplits([current_doc |-> m.current_doc, total |-> m.total],
                            Len(d), chunk_size, chunk_overlap)
             n == IF m.total + Len(d) > chunk_size /\ m.current_doc # <<>>
                  THEN [docs |-> AppendDoc(m.docs, m.current_doc),
                        current_doc |-> p.current_doc, total |-> p.total]
                  ELSE m
         IN  MergeFrom([docs |-> n.docs, current_doc |-> Append(n.current_doc, d),
                        total |-> n.total + Len(d)],
                       splits, i + 1, chunk_size, chunk_overlap)

\* _merge_splits(splits, "")
merge_splits(splits, chunk_size, chunk_overlap) ==
    MergeFrom([docs |-> <<>>, current_doc |-> <<>>, total |-> 0],
              splits, 1, chunk_size, chunk_overlap)

\* the separator _split_text takes: the first of the list that is "" or is in
\* the text, else the last; new_separators are the ones behind it
RECURSIVE PickSeparator(_, _, _)
PickSeparator(text, separators, i) ==
    IF i > Len(separators)
    THEN [separator |-> separators[Len(separators)], new_separators |-> <<>>]
    ELSE IF separators[i] = <<>>
    THEN [separator |-> <<>>, new_separators |-> <<>>]
    ELSE IF Contains(text, separators[i])
    THEN [separator |-> separators[i],
          new_separators |-> SubSeq(separators, i + 1, Len(separators))]
    ELSE PickSeparator(text, separators, i + 1)

RECURSIVE split_text(_, _, _, _)
RECURSIVE SplitLoop(_, _, _, _, _, _)

\* the for loop of _split_text, from split i: st is [final_chunks, good_splits]
SplitLoop(st, splits, i, new_separators, chunk_size, chunk_overlap) ==
    LET merged == IF st.good_splits # <<>>
                  THEN st.final_chunks
                         \o merge_splits(st.good_splits, chunk_size, chunk_overlap)
                  ELSE st.final_chunks
    IN  IF i > Len(splits) THEN merged
        ELSE IF Len(splits[i]) < chunk_size
        THEN SplitLoop([st EXCEPT !.good_splits = Append(@, splits[i])],
                       splits, i + 1, new_separators, chunk_size, chunk_overlap)
        ELSE SplitLoop(
                [final_chunks |->
                    merged \o (IF new_separators = <<>> THEN <<splits[i]>>
                               ELSE split_text(splits[i], new_separators,
                                               chunk_size, chunk_overlap)),
                 good_splits |-> <<>>],
                splits, i + 1, new_separators, chunk_size, chunk_overlap)

\* RecursiveCharacterTextSplitter._split_text(text, separators)
split_text(text, separators, chunk_size, chunk_overlap) ==
    LET p == PickSeparator(text, separators, 1)
    IN  SplitLoop([final_chunks |-> <<>>, good_splits |-> <<>>],
                  split_text_with_regex(text, p.separator), 1, p.new_separators,
                  chunk_size, chunk_overlap)

\* TextSplitter.__init__ raises ValueError: for chunk_overlap > chunk_size in
\* every release, for chunk_size <= 0 and chunk_overlap < 0 in the releases
\* that check them (strict)
SplitterRejects(chunk_size, chunk_overlap, strict) ==
    \/ chunk_overlap > chunk_size
    \/ strict /\ (chunk_size <= 0 \/ chunk_overlap < 0)

\* chunk_text(text, chunk_size, chunk_overlap): [raised, chunks]
chunk_text(text, chunk_size, chunk_overlap, strict) ==
    IF SplitterRejects(chunk_size, chunk_overlap, strict)
    THEN [raised |-> TRUE, chunks |-> <<>>]
    ELSE [raised |-> FALSE,
          chunks |-> split_text(text, DefaultSeparators, chunk_size, chunk_overlap)]

----------------------------------------------------------------------------
(* Specification of the chunker: one call of chunk_text *)

Characters == {"a", " ", "\n"}

\* the texts of at most n characters
Texts(n) == UNION { [1..k -> Characters] : k \in 0..n }

InitChunk ==
    /\ pc = "chunk"
    /\ chunker = NoChunking
    /\ cli = NoMain
    /\ similar = NoQuery
    /\ run = NoRun
    /\ db = NoDb
    /\ last_call = NoCall
    /\ num_calls = 0
    /\ merged_kg = NoGraph
    /\ graphs0 = <<>>
    /\ graphs = <<>>
    /\ num_chunks = 0
    /\ responses = <<>>

\* chunks = chunk_text(text, chunk_size=chunk_size, chunk_overlap=chunk_overlap)
ChunkText ==
    /\ pc = "chunk"
    /\ \E text \in Texts(MaxText), chunk_size \in 0..MaxChunkSize,
          chunk_overlap \in 0..MaxChunkSize, strict \in BOOLEAN :
          LET r == chunk_text(text, chunk_size, chunk_overlap, strict)
          IN  chunker' = [op |-> "chunk_text", text |-> text, chunk_size |-> chunk_size,
                          chunk_overlap |-> chunk_overlap, raised |-> r.raised,
                          chunks |-> r.chunks]
    /\ pc' = "chunked"
    /\ UNCHANGED <<graphs0, graphs, merged_kg, num_chunks, responses, db, last_call,
                   num_calls, similar, run, cli>>

NextChunk == ChunkText

SpecChunk == InitChunk /\ [][NextChunk]_vars

----------------------------------------------------------------------------
(* The chunker's contract *)

\* max_size > 0 and 0 <= overlap < max_size
ValidChunkParameters ==
    /\ chunker.chunk_size > 0
    /\ chunker.chunk_overlap >= 0
    /\ chunker.chunk_overlap < chunker.chunk_size

\* the chunks from chunk i on, each without some overlap with its predecessor
\* prev, give exactly the text rest
RECURSIVE ReconstructsFrom(_, _, _, _)
ReconstructsFrom(chunks, i, prev, rest) ==
    IF i > Len(chunks) THEN rest = <<>>
    ELSE \E o \in 0..Len(chunks[i]) :
            /\ o <= Len(prev)
            /\ SubSeq(chunks[i], 1, o) = SubSeq(prev, Len(prev) - o + 1, Len(prev))
            /\ Len(chunks[i]) - o <= Len(rest)
            /\ SubSeq(chunks[i], o + 1, Len(chunks[i])) = SubSeq(rest, 1, Len(chunks[i]) - o)
            /\ ReconstructsFrom(chunks, i + 1, chunks[i],
                                SubSeq(rest, Len(chunks[i]) - o + 1, Len(rest)))

\* C18: with valid parameters and the default separators every chunk that
\* chunk_text returns has at most chunk_size characters
ChunksWithinMaxSize ==
    (chunker.op = "chunk_text" /\ ValidChunkParameters) =>
        /\ ~chunker.raised
        /\ \A i \in 1..Len(chunker.chunks) : Len(chunker.chunks[i]) <= chunker.chunk_size

\* C18 witness: a text without a separator, longer than two chunks
ChunksWithinMaxSizeWitness ==
    /\ chunker.op = "chunk_text"
    /\ chunker.text = <<"a", "a", "a", "a", "a">>
    /\ chunker.chunk_size = 2
    /\ chunker.chunk_overlap = 1
    /\ Len(chunker.chunks) > 2

\* C19: the chunks are in document order and, each without its overlap with
\* the chunk before it, concatenate to the text; the empty text gives no chunk
ChunksReconstructText ==
    (chunker.op = "chunk_text" /\ ValidChunkParameters) =>
        /\ ReconstructsFrom(chunker.chunks, 1, <<>>, chunker.text)
        /\ chunker.text = <<>> => chunker.chunks = <<>>

----------------------------------------------------------------------------
(* KnowledgeGraphPipeline.process_text *)

\* run holds the arguments of the run (text, create_embeddings, clear_db),
\* the chunk parameters the pipeline was constructed with, the store as it
\* was before the run (db0), and what the run did so far: its chunks, its
\* embeddings, its events (the calls it made to the store, the generation
\* capability and the embedder, in order) and the statistics it returned.
\* graphs and merged_kg are the local variables of process_text.

NoStatistics == [returned |-> FALSE]

\* what process_text returns, with a count taken from the wrong list
ProcessTextStatisticsOfEntities(chunks, kg, create_embeddings) ==
    [returned |-> TRUE,
     num_chunks |-> Len(chunks),
     num_entities |-> Len(kg.entities),
     num_relationships |-> Len(kg.entities),
     has_embeddings |-> create_embeddings]

\* the dict process_text returns
ProcessTextStatistics(chunks, kg, create_embeddings) ==
    [returned |-> TRUE,
     num_chunks |-> Len(chunks),
     num_entities |-> Len(kg.entities),
     num_relationships |-> Len(kg.relationships),
     has_embeddings |-> create_embeddings]

\* dict(zip(entity_names, self.embedder.embed_batch(entity_names)))
EmbedBatch(kg) ==
    [n \in {kg.entities[i].name : i \in 1..Len(kg.entities)} |-> EmbeddingOf(n)]

\* stores a run can find: the empty one, and one left by an earlier run
PipelineStores ==
    { NoDb,
      store_knowledge_graph(
          NoDb,
          KnowledgeGraph(<<Entity("Old", "Concept", EmptyDict),
                           Entity("AI", "Concept", Dict1("lang", "ko"))>>,
                         <<Relationship("Old", "AI", TypeWorksFor, EmptyDict)>>),
          <<>>).db }

\* texts of no, one and two chunks
PipelineTexts == { <<>>, <<"a">>, <<"a", " ", "a">> }

\* <<chunk_size, chunk_overlap>>: two valid pairs, chunk_size = 0,
\* chunk_overlap > chunk_size and chunk_overlap = chunk_size
PipelineChunkParameters == { <<2, 0>>, <<2, 1>>, <<0, 0>>, <<1, 2>>, <<2, 2>> }

\* what the generation call does for a chunk: it fails, it returns a list
\* with an element that is no object, it names two entities and a
\* relationship, or it names one of these entities again
PipelineResponses ==
    { RaisedCall,
      ObjectResponse(FALSE,
          ListField(<<ObjectElement([name |-> "ML", type |-> "Topic"]), StringElement>>),
          AbsentField),
      ObjectResponse(FALSE,
          ListField(<<ObjectElement([name |-> "AI", type |-> "Concept",
                                     properties |-> Dict1("lang", "en")]),
                      ObjectElement([name |-> "ai", type |-> "Topic"])>>),
          ListField(<<ObjectElement([source |-> "AI", target |-> "ai",
                                     type |-> TypeWorksFor,
                                     properties |-> Dict1("w", "5")])>>)),
      ObjectResponse(TRUE,
          ListField(<<ObjectElement([name |-> "AI", type |-> "Topic"])>>),
          AbsentField) }

\* pipeline = KnowledgeGraphPipeline(chunk_size=..., chunk_overlap=...), then
\* pipeline.process_text(text, create_embeddings, clear_db) is entered
Init ==
    /\ pc = "process_text"
    /\ db \in PipelineStores
    /\ \E text \in PipelineTexts, p \in PipelineChunkParameters,
          create_embeddings \in BOOLEAN, clear_db \in BOOLEAN, strict \in BOOLEAN :
          run = [op |-> "process_text", text |-> text,
                 chunk_size |-> p[1], chunk_overlap |-> p[2], strict |-> strict,
                 create_embeddings |-> create_embeddings, clear_db |-> clear_db,
                 db0 |-> db, chunks |-> <<>>, embeddings |-> <<>>, events |-> <<>>,
                 statistics |-> NoStatistics]
    /\ graphs = <<>>
    /\ graphs0 = <<>>
    /\ merged_kg = NoGraph
    /\ num_chunks = 0
    /\ responses = <<>>
    /\ last_call = NoCall
    /\ num_calls = 0
    /\ similar = NoQuery
    /\ chunker = NoChunking
    /\ cli = NoMain

PipelineFrame == UNCHANGED <<last_call, num_calls, similar, chunker, cli>>

\* a first step that clears the store whatever clear_db is
ClearAlways ==
    /\ pc = "process_text"
    /\ db' = NoDb
    /\ run' = [run EXCEPT !.events = Append(@, [op |-> "clear_database"])]
    /\ pc' = "chunk"
    /\ UNCHANGED <<graphs0, graphs, merged_kg, num_chunks, responses>>
    /\ PipelineFrame

\* if clear_db: self.storage.clear_database()
ClearIfRequested ==
    /\ pc = "process_text"
    /\ IF run.clear_db
       THEN /\ db' = NoDb
            /\ run' = [run EXCEPT !.events = Append(@, [op |-> "clear_database"])]
       ELSE UNCHANGED <<db, run>>
    /\ pc' = "chunk"
    /\ UNCHANGED <<graphs0, graphs, merged_kg, num_chunks, responses>>
    /\ PipelineFrame

\* chunks = chunk_text(text, chunk_size=self.chunk_size, chunk_overlap=self.chunk_overlap);
\* a ValueError of the splitter leaves process_text
ChunkTheText ==
    /\ pc = "chunk"
    /\ LET r == chunk_text(run.text, run.chunk_size, run.chunk_overlap, run.strict)
       IN  IF r.raised
           THEN /\ pc' = "raised"
                /\ UNCHANGED <<run, num_chunks>>
           ELSE /\ pc' = "extract_chunks"
                /\ run' = [run EXCEPT !.chunks = r.chunks]
                /\ num_chunks' = Len(r.chunks)
    /\ UNCHANGED <<graphs0, graphs, merged_kg, responses, db>>
    /\ PipelineFrame

\* the body of the loop over the chunks: kg = self.extractor.extract(chunk);
\* graphs.append(kg)
ProcessChunk ==
    /\ pc = "extract_chunks"
    /\ Len(graphs) < num_chunks
    /\ \E resp \in PipelineResponses :
          LET r == extract(resp)
          IN  /\ responses' = Append(responses, resp)
              /\ run' = [run EXCEPT !.events =
                            Append(@, [op |-> "extract", chunk |-> Len(graphs) + 1])]
              /\ IF r.raised
                 THEN pc' = "raised" /\ UNCHANGED graphs
                 ELSE graphs' = Append(graphs, r.kg) /\ UNCHANGED pc
    /\ UNCHANGED <<graphs0, merged_kg, num_chunks, db>>
    /\ PipelineFrame

\* a merge of the fragments in the reverse of their order
MergeGraphsReversed ==
    /\ pc = "extract_chunks"
    /\ Len(graphs) = num_chunks
    /\ LET reversed == [i \in 1..Len(graphs) |-> graphs[Len(graphs) + 1 - i]]
           r == merge_knowledge_graphs(reversed)
       IN  /\ merged_kg' = r.kg
           /\ graphs' = r.heap
           /\ graphs0' = reversed
           /\ run' = [run EXCEPT !.events =
                         Append(@, [op |-> "merge_knowledge_graphs", graphs |-> reversed])]
    /\ pc' = "embed"
    /\ UNCHANGED <<num_chunks, responses, db>>
    /\ PipelineFrame

\* after the loop: merged_kg = merge_knowledge_graphs(graphs)
MergeGraphs ==
    /\ pc = "extract_chunks"
    /\ Len(graphs) = num_chunks
    /\ LET r == merge_knowledge_graphs(graphs)
       IN  /\ merged_kg' = r.kg
           /\ graphs' = r.heap
    /\ graphs0' = graphs
    /\ run' = [run EXCEPT !.events =
                  Append(@, [op |-> "merge_knowledge_graphs", graphs |-> graphs])]
    /\ pc' = "embed"
    /\ UNCHANGED <<num_chunks, responses, db>>
    /\ PipelineFrame

\* embeddings = {}; if create_embeddings and merged_kg.entities: embed_batch
CreateEmbeddings ==
    /\ pc = "embed"
    /\ IF run.create_embeddings /\ merged_kg.entities # <<>>
       THEN run' = [run EXCEPT !.embeddings = EmbedBatch(merged_kg),
                               !.events = Append(@,
                                   [op |-> "embed_batch",
                                    entity_names |->
                                        [i \in 1..Len(merged_kg.entities) |->
                                            merged_kg.entities[i].name]])]
       ELSE UNCHANGED run
    /\ pc' = "store"
    /\ UNCHANGED <<graphs0, graphs, merged_kg, num_chunks, responses, db>>
    /\ PipelineFrame

\* self.storage.store_knowledge_graph(merged_kg, embeddings); return {...}
StoreAndReturn ==
    /\ pc = "store"
    /\ LET r == store_knowledge_graph(db, merged_kg, run.embeddings)
       IN  /\ db' = r.db
           /\ merged_kg' = r.kg
           /\ run' = [run EXCEPT
                         !.events = @ \o r.upserts,
                         !.statistics = ProcessTextStatistics(run.chunks, r.kg,
                                                              run.create_embeddings)]
    /\ pc' = "returned"
    /\ UNCHANGED <<graphs0, graphs, num_chunks, responses>>
    /\ PipelineFrame

Next ==
    \/ ClearIfRequested
    \/ ChunkTheText
    \/ ProcessChunk
    \/ MergeGraphs
    \/ CreateEmbeddings
    \/ StoreAndReturn

Spec == Init /\ [][Next]_vars

----------------------------------------------------------------------------
(* The pipeline's contract *)

\* positions of the calls of clear_database and of the upserts in the run
ClearEvents == {i \in 1..Len(run.events) : run.events[i].op = "clear_database"}

UpsertEvents ==
    {i \in 1..Len(run.events) :
        run.events[i].op \in {"create_entity", "create_relationship"}}

\* C16: clear_database is executed only in a run with clear_db = true, then
\* once, as the first thing and before every upsert of the run; in a run with
\* clear_db = false every node and edge stored before the run stays stored
ClearOnlyOnRequest ==
    run.op = "process_text" =>
        /\ Cardinality(ClearEvents) = IF run.clear_db /\ pc # "process_text" THEN 1 ELSE 0
        /\ \A i \in ClearEvents : \A j \in UpsertEvents : i < j
        /\ ~run.clear_db =>
              /\ DOMAIN run.db0.nodes \subseteq DOMAIN db.nodes
              /\ DOMAIN run.db0.edges \subseteq DOMAIN db.edges

\* C16 witness: a run with clear_db = true on a store that held nodes has
\* returned after upserts
ClearOnlyOnRequestWitness ==
    /\ pc = "returned"
    /\ run.clear_db
    /\ run.db0 # NoDb
    /\ 1 \in ClearEvents
    /\ UpsertEvents # {}

InvalidChunkParameters ==
    \/ run.chunk_size <= 0
    \/ run.chunk_overlap < 0
    \/ run.chunk_overlap >= run.chunk_size

\* C17: a pipeline with invalid chunk parameters raises before it clears the
\* store, calls the generation capability or the embedder, or writes to the
\* store: the run makes no such call and the store is as it was
InvalidChunkParametersRaiseFirst ==
    (run.op = "process_text" /\ InvalidChunkParameters) =>
        /\ run.events = <<>>
        /\ db = run.db0
        /\ pc \in {"process_text", "chunk", "raised"}

\* the chunks whose extraction succeeded
SuccessfulChunks == {i \in 1..Len(responses) : ~Unparseable(responses[i])}

\* the entity names and the triples over the fragments of the successful chunks
NamesOfSuccessfulChunks ==
    UNION { {ValidFragment(responses[i]).entities[k].name :
                k \in 1..Len(ValidFragment(responses[i]).entities)} :
            i \in SuccessfulChunks }

TriplesOfSuccessfulChunks ==
    UNION { { <<ValidFragment(responses[i]).relationships[k].source,
                ValidFragment(responses[i]).relationships[k].target,
                ValidFragment(responses[i]).relationships[k].type>> :
                k \in 1..Len(ValidFragment(responses[i]).relationships)} :
            i \in SuccessfulChunks }

\* C20: whatever chunks fail, process_text raises nothing once the chunks are
\* made and returns its statistics: the number of chunks, the number of
\* distinct entity names and of distinct triples over the fragments of the
\* successful chunks; a failed chunk gives the empty fragment
ProcessTextReturnsStatistics ==
    run.op = "process_text" =>
        /\ pc = "raised" => responses = <<>>
        /\ pc = "returned" =>
              /\ run.statistics.returned
              /\ Len(responses) = Len(run.chunks)
              /\ run.statistics.num_chunks = Len(run.chunks)
              /\ run.statistics.num_entities = Cardinality(NamesOfSuccessfulChunks)
              /\ run.statistics.num_relationships = Cardinality(TriplesOfSuccessfulChunks)
              /\ \A i \in 1..Len(responses) :
                    i \notin SuccessfulChunks => graphs0[i] = EmptyFragment

\* C20 witness: of two chunks the first failed and the second gave two
\* entities and a relationship
ProcessTextReturnsStatisticsWitness ==
    /\ pc = "returned"
    /\ Len(run.chunks) = 2
    /\ SuccessfulChunks = {2}
    /\ run.statistics.num_chunks = 2
    /\ run.statistics.num_entities = 2
    /\ run.statistics.num_relationships = 1

\* positions of the generation calls, the merge and the embedding call in the run
ExtractEvents == {i \in 1..Len(run.events) : run.events[i].op = "extract"}

MergeEvents == {i \in 1..Len(run.events) : run.events[i].op = "merge_knowledge_graphs"}

EmbedEvents == {i \in 1..Len(run.events) : run.events[i].op = "embed_batch"}

\* the fragment the response for chunk i stands for
FragmentOfChunk(i) ==
    IF i \in SuccessfulChunks THEN ValidFragment(responses[i]) ELSE EmptyFragment

\* C21: a run makes one generation call per chunk, in chunk order; it merges
\* once, after the last of them, the fragments in chunk order; it embeds only
\* after the merge and only the merged entity names; and it upserts nothing
\* before the merge and, when embeddings are requested, the embedding
ProcessTextSequenced ==
    run.op = "process_text" =>
        /\ Cardinality(ExtractEvents) <= Len(run.chunks)
        /\ \A i \in ExtractEvents :
              run.events[i].chunk = Cardinality({j \in ExtractEvents : j <= i})
        /\ Cardinality(MergeEvents) <= 1
        /\ \A m \in MergeEvents :
              /\ Cardinality(ExtractEvents) = Len(run.chunks)
              /\ \A i \in ExtractEvents : i < m
              /\ run.events[m].graphs = [i \in 1..Len(run.chunks) |-> FragmentOfChunk(i)]
        /\ Cardinality(EmbedEvents) <= 1
        /\ \A e \in EmbedEvents :
              /\ run.create_embeddings
              /\ \E m \in MergeEvents : m < e
              /\ {run.events[e].entity_names[k] :
                     k \in 1..Len(run.events[e].entity_names)} = NamesOfSuccessfulChunks
              /\ Len(run.events[e].entity_names) = Cardinality(NamesOfSuccessfulChunks)
        /\ \A u \in UpsertEvents :
              /\ \E m \in MergeEvents : m < u
              /\ \A e \in EmbedEvents : e < u
              /\ run.create_embeddings => EmbedEvents # {}
        /\ pc = "returned" => Cardinality(MergeEvents) = 1

\* C21 witness: a run over two chunks with different fragments has embedded
\* and stored
ProcessTextSequencedWitness ==
    /\ pc = "returned"
    /\ Len(run.chunks) = 2
    /\ FragmentOfChunk(1) # FragmentOfChunk(2)
    /\ EmbedEvents # {}
    /\ UpsertEvents # {}

\* C22: the has_embeddings statistic is true exactly when the run computed an
\* embedding for every entity of the merged graph and handed it to the store;
\* it is false when the run computed no embedding (runs with valid chunk
\* parameters)
StatisticsTellEmbeddings ==
    (run.op = "process_text" /\ pc = "returned" /\ ~InvalidChunkParameters) =>
        (run.statistics.has_embeddings <=>
            /\ EmbedEvents # {}
            /\ merged_kg.entities # <<>>
            /\ \A i \in 1..Len(merged_kg.entities) :
                  /\ merged_kg.entities[i].name \in DOMAIN run.embeddings
                  /\ \E u \in UpsertEvents :
                        /\ run.events[u].op = "create_entity"
                        /\ run.events[u].name = merged_kg.entities[i].name
                        /\ run.events[u].embedding.some)

\* C23: store_knowledge_graph only reads the graph it is handed: after the
\* call every entity of the caller's graph has the properties it had before,
\* with or without a vector for its name in the embeddings map
StoreLeavesGraphUnchanged ==
    last_call.op = "store_knowledge_graph" =>
        /\ Len(merged_kg.entities) = Len(last_call.kg.entities)
        /\ \A i \in 1..Len(last_call.kg.entities) :
              /\ DOMAIN merged_kg.entities[i].properties
                    = DOMAIN last_call.kg.entities[i].properties
              /\ \A k \in DOMAIN last_call.kg.entities[i].properties :
                    merged_kg.entities[i].properties[k]
                       = last_call.kg.entities[i].properties[k]

----------------------------------------------------------------------------
(* main: the command line *)

\* cli holds the parsed arguments, the pipeline object of main ("none" until
\* the constructor has returned, then "constructed", "closed" after
\* pipeline.close()), the Neo4j driver of the storage ("none", "open",
\* "closed") and the exit status of the process ("running", 0, 1 as strings).

\* what --input names: nothing, a file that does not exist, a text file, a PDF
InputKinds == {"none", "missing", "txt", "pdf"}

\* <<--chunk-size, --chunk-overlap>>: a valid pair and one the splitter rejects
MainChunkParameters == { <<2, 0>>, <<1, 2>> }

MainArguments ==
    [query : BOOLEAN, input : InputKinds, text : BOOLEAN, no_embeddings : BOOLEAN,
     clear_db : BOOLEAN, chunk : MainChunkParameters]

\* args = parser.parse_args()
InitMain ==
    /\ pc = "main"
    /\ \E args \in MainArguments :
          cli = [op |-> "main", args |-> args, pipeline |-> "none", driver |-> "none",
                 exit |-> "running"]
    /\ db \in PipelineStores
    /\ run = NoRun
    /\ graphs = <<>>
    /\ graphs0 = <<>>
    /\ merged_kg = NoGraph
    /\ num_chunks = 0
    /\ responses = <<>>
    /\ last_call = NoCall
    /\ num_calls = 0
    /\ similar = NoQuery
    /\ chunker = NoChunking

MainFrame ==
    UNCHANGED <<graphs0, graphs, merged_kg, num_chunks, responses, db, last_call,
                num_calls, similar, chunker>>

\* the process ends with the given status; nothing is closed on the way
Exit(status) ==
    /\ cli' = [cli EXCEPT !.exit = status]
    /\ pc' = "exited"

\* if not args.input and not args.text and not args.query: sys.exit(1)
MainValidate ==
    /\ pc = "main"
    /\ IF cli.args.input = "none" /\ ~cli.args.text /\ ~cli.args.query
       THEN Exit("1")
       ELSE pc' = "construct" /\ UNCHANGED cli
    /\ UNCHANGED run
    /\ MainFrame

\* pipeline = KnowledgeGraphPipeline(...): the storage connects or raises, and
\* after it the extractor or the embedder may raise; an exception goes to
\* except Exception, which exits with 1
MainConstruct ==
    /\ pc = "construct"
    /\ \/ /\ cli' = [cli EXCEPT !.pipeline = "constructed", !.driver = "open"]
          /\ pc' = "dispatch"
       \/ Exit("1")
       \/ /\ cli' = [cli EXCEPT !.driver = "open", !.exit = "1"]
          /\ pc' = "exited"
    /\ UNCHANGED run
    /\ MainFrame

\* if args.query: results = pipeline.query_graph(args.query); ...; return
MainQuery ==
    /\ pc = "dispatch"
    /\ cli.args.query
    /\ \/ Exit("0")
       \/ Exit("1")
    /\ UNCHANGED run
    /\ MainFrame

\* the input is a file that does not exist: sys.exit(1)
MainInputMissing ==
    /\ pc = "dispatch"
    /\ ~cli.args.query
    /\ cli.args.input = "missing"
    /\ Exit("1")
    /\ UNCHANGED run
    /\ MainFrame

\* the text is read (pdf_to_text, f.read() or args.text) and process_text is
\* entered, or reading the file raises
MainProcess ==
    /\ pc = "dispatch"
    /\ ~cli.args.query
    /\ cli.args.input \in {"txt", "pdf"} \/ (cli.args.input = "none" /\ cli.args.text)
    /\ \/ /\ \E strict \in BOOLEAN,
                text \in IF cli.args.input = "none" THEN PipelineTexts \ {<<>>}
                                                   ELSE PipelineTexts :
                run' = [op |-> "process_text", text |-> text,
                        chunk_size |-> cli.args.chunk[1],
                        chunk_overlap |-> cli.args.chunk[2], strict |-> strict,
                        create_embeddings |-> ~cli.args.no_embeddings,
                        clear_db |-> cli.args.clear_db,
                        db0 |-> db, chunks |-> <<>>, embeddings |-> <<>>,
                        events |-> <<>>, statistics |-> NoStatistics]
          /\ pc' = "process_text"
          /\ UNCHANGED cli
       \/ /\ cli.args.input # "none"
          /\ Exit("1")
          /\ UNCHANGED run
    /\ MainFrame

\* process_text raised: except Exception prints the error, sys.exit(1)
MainRaised ==
    /\ pc = "raised"
    /\ cli.op = "main"
    /\ Exit("1")
    /\ UNCHANGED run
    /\ MainFrame

\* the statistics are printed; pipeline.close(): self.storage.close()
MainClose ==
    /\ pc = "returned"
    /\ cli.op = "main"
    /\ cli' = [cli EXCEPT !.pipeline = "closed", !.driver = "closed", !.exit = "0"]
    /\ pc' = "exited"
    /\ UNCHANGED run
    /\ MainFrame

\* Ctrl-C inside the try block: except KeyboardInterrupt, sys.exit(1)
MainInterrupt ==
    /\ cli.op = "main"
    /\ pc \notin {"main", "exited"}
    /\ Exit("1")
    /\ UNCHANGED run
    /\ MainFrame

NextMain ==
    \/ MainValidate
    \/ MainConstruct
    \/ MainQuery
    \/ MainInputMissing
    \/ MainProcess
    \/ ClearIfRequested
    \/ ChunkTheText
    \/ ProcessChunk
    \/ MergeGraphs
    \/ CreateEmbeddings
    \/ StoreAndReturn
    \/ MainRaised
    \/ MainClose
    \/ MainInterrupt

SpecMain == InitMain /\ [][NextMain]_vars

\* C24: an execution of main that constructed a pipeline has closed it when
\* the process exits, on every path
MainClosesPipeline ==
    (cli.op = "main" /\ pc = "exited" /\ cli.pipeline # "none") =>
        cli.pipeline = "closed" /\ cli.driver = "closed"

====
